---------------------------- MODULE Spec2Model ----------------------------
(***************************************************************************)
(* Personal finance tracker backend (finance_tracker_backend/app.py,       *)
(* models.py): the users and transactions tables, the session of the       *)
(* request being served, and one action per HTTP handler.                  *)
(*                                                                         *)
(* Requests are served one at a time: a handler action takes the server    *)
(* from idle (exchange = <<>>) to a response in flight, and Teardown ends  *)
(* the request context (Flask-SQLAlchemy removes the scoped session there, *)
(* which discards whatever the handler left uncommitted).                  *)
(*                                                                         *)
(* Strings whose characters the code inspects (strip, lower, strptime,     *)
(* float) are sequences of one-character strings; strings the code only    *)
(* compares (type, category) are atoms.  Amounts are integers counted in   *)
(* thousandths on input and in hundredths (the Numeric(10, 2) column) once *)
(* stored; NaN is a value of its own.  The store is PostgreSQL, the        *)
(* database the application configures.                                    *)
(***************************************************************************)
EXTENDS Integers, Sequences, FiniteSets, TLC

VARIABLES
    users,       \* rows of table users: set of [id, name, email]
    txs,         \* rows of table transactions: function id -> row
    nextUserId,  \* next value of the users.id sequence
    nextTxId,    \* next value of the transactions.id sequence
    session,     \* uncommitted ORM state of the current request: <<>> or <<row>>
    exchange,    \* <<>> when idle, else <<[op, user, tid, args, status, body]>>
    deleted      \* history: <<user, id>> of every successful delete_transaction

vars == <<users, txs, nextUserId, nextTxId, session, exchange, deleted>>

-----------------------------------------------------------------------------
(* Bounds of the model *)

MaxUserId == 2     \* users.id sequence values handed out
MaxTxId == 2       \* transactions.id values handed out (Spec, SpecList, SpecSummary, SpecOwner)
MaxTxIdValid == 1  \* transactions.id values handed out (SpecCreate, SpecUpdate)

-----------------------------------------------------------------------------
(* Python strings *)

Upper == <<"A", "B", "C", "D", "E", "F", "G", "H", "I", "J", "K", "L", "M",
           "N", "O", "P", "Q", "R", "S", "T", "U", "V", "W", "X", "Y", "Z">>
Lowercase == <<"a", "b", "c", "d", "e", "f", "g", "h", "i", "j", "k", "l", "m",
               "n", "o", "p", "q", "r", "s", "t", "u", "v", "w", "x", "y", "z">>

IsSpace(c) == c \in {" ", "\t", "\n", "\r"}

\* str.lower() on one character
LowerChar(c) ==
    IF \E i \in 1..26 : Upper[i] = c
    THEN Lowercase[CHOOSE i \in 1..26 : Upper[i] = c]
    ELSE c

\* str.lower()
Lower(s) == [i \in 1..Len(s) |-> LowerChar(s[i])]

RECURSIVE LStrip(_)
LStrip(s) == IF s # <<>> /\ IsSpace(Head(s)) THEN LStrip(Tail(s)) ELSE s

RECURSIVE RStrip(_)
RStrip(s) ==
    IF s # <<>> /\ IsSpace(s[Len(s)]) THEN RStrip(SubSeq(s, 1, Len(s) - 1)) ELSE s

\* str.strip()
Strip(s) == RStrip(LStrip(s))

\* c in s
Contains(s, c) == \E i \in 1..Len(s) : s[i] = c

-----------------------------------------------------------------------------
(* JSON values of a request body: null, a number (in thousandths), an      *)
(* atomic string, or a string given character by character.                *)

JNull == [t |-> "null", v |-> 0]
JNum(m) == [t |-> "num", v |-> m]
JStr(a) == [t |-> "str", v |-> a]
JText(cs) == [t |-> "text", v |-> cs]

IsString(j) == j.t \in {"str", "text"}

\* Python truthiness of a JSON value
Truthy(j) ==
    CASE j.t = "null" -> FALSE
      [] j.t = "num" -> j.v # 0
      [] j.t = "str" -> j.v # ""
      [] j.t = "text" -> j.v # <<>>

\* data.get(key): None when the key is absent
Get(data, key) == IF key \in DOMAIN data THEN data[key] ELSE JNull

-----------------------------------------------------------------------------
(* float() and the Numeric(10, 2) column *)

Digits == <<"0", "1", "2", "3", "4", "5", "6", "7", "8", "9">>
IsDigit(c) == \E i \in 1..10 : Digits[i] = c
DigitVal(c) == (CHOOSE i \in 1..10 : Digits[i] = c) - 1
AllDigits(s) == \A i \in 1..Len(s) : IsDigit(s[i])

RECURSIVE DigitsVal(_)
DigitsVal(s) ==
    IF s = <<>> THEN 0 ELSE 10 * DigitsVal(SubSeq(s, 1, Len(s) - 1)) + DigitVal(s[Len(s)])

NaN == [nan |-> TRUE, v |-> 0]
Num(m) == [nan |-> FALSE, v |-> m]
FloatError(kind) == [ok |-> FALSE, err |-> kind, f |-> NaN]
FloatOk(f) == [ok |-> TRUE, err |-> "", f |-> f]

\* The decimal literals float() is given here: [sign] digits [. up to three
\* digits], read in thousandths.
IsDecimalBody(s) ==
    \E k \in 1..Len(s) :
        /\ AllDigits(SubSeq(s, 1, k))
        /\ \/ k = Len(s)
           \/ /\ s[k + 1] = "."
              /\ Len(s) - (k + 1) \in 0..3
              /\ AllDigits(SubSeq(s, k + 2, Len(s)))

DecimalBodyMilli(s) ==
    LET k == CHOOSE k \in 1..Len(s) :
                 AllDigits(SubSeq(s, 1, k)) /\ (k = Len(s) \/ s[k + 1] = ".")
        frac == IF k = Len(s) THEN <<>> ELSE SubSeq(s, k + 2, Len(s))
        pad == frac \o SubSeq(<<"0", "0", "0">>, 1, 3 - Len(frac))
    IN  1000 * DigitsVal(SubSeq(s, 1, k)) + DigitsVal(pad)

\* float(str): surrounding whitespace is ignored, "nan" in any case is NaN
FloatOfText(cs) ==
    LET s == Strip(cs)
        neg == s # <<>> /\ s[1] = "-"
        body == IF s # <<>> /\ s[1] \in {"-", "+"} THEN Tail(s) ELSE s
    IN  IF Lower(body) = <<"n", "a", "n">> THEN FloatOk(NaN)
        ELSE IF body # <<>> /\ IsDecimalBody(body)
        THEN FloatOk(Num(IF neg THEN 0 - DecimalBodyMilli(body) ELSE DecimalBodyMilli(body)))
        ELSE FloatError("ValueError")

\* float(x) for a JSON value x
Float(j) ==
    CASE j.t = "num" -> FloatOk(Num(j.v))
      [] j.t = "text" -> FloatOfText(j.v)
      [] j.t = "str" -> FloatError("ValueError")
      [] j.t = "null" -> FloatError("TypeError")

\* amount <= 0 (every comparison with NaN is False)
LeqZero(f) == ~f.nan /\ f.v <= 0

\* Numeric(10, 2): the value rounded to hundredths, halves away from zero
\* (still counted in thousandths: a multiple of 10)
ToNumeric(f) ==
    IF f.nan THEN NaN
    ELSE IF f.v >= 0 THEN Num(10 * ((f.v + 5) \div 10))
    ELSE Num(0 - 10 * ((5 - f.v) \div 10))

-----------------------------------------------------------------------------
(* datetime.strptime(s, '%Y-%m-%d').date() and date.isoformat() *)

DashesAt(s) == {i \in 1..Len(s) : s[i] = "-"}

IsLeap(y) == (y % 4 = 0 /\ y % 100 # 0) \/ y % 400 = 0

DaysInMonth(y, m) ==
    IF m = 2 THEN (IF IsLeap(y) THEN 29 ELSE 28)
    ELSE IF m \in {4, 6, 9, 11} THEN 30 ELSE 31

\* %Y: exactly four digits
IsYearPart(s) == Len(s) = 4 /\ AllDigits(s)
\* %m: 1[0-2] | 0[1-9] | [1-9]
IsMonthPart(s) == Len(s) \in {1, 2} /\ AllDigits(s) /\ DigitsVal(s) \in 1..12
\* %d: 3[01] | [12]\d | 0[1-9] | [1-9] | ' '[1-9]
IsDayPart(s) ==
    \/ Len(s) \in {1, 2} /\ AllDigits(s) /\ DigitsVal(s) \in 1..31
    \/ Len(s) = 2 /\ s[1] = " " /\ IsDigit(s[2]) /\ DigitVal(s[2]) \in 1..9
DayPartVal(s) == IF s[1] = " " THEN DigitVal(s[2]) ELSE DigitsVal(s)

DateError == [ok |-> FALSE, y |-> 0, m |-> 0, d |-> 0]

\* The parsed date, or the ValueError strptime (no match, unconverted data)
\* or date() (year 0, day out of range for the month) raises.
Strptime(s) ==
    IF Cardinality(DashesAt(s)) # 2 THEN DateError
    ELSE LET i == CHOOSE i \in DashesAt(s) : \A j \in DashesAt(s) : i <= j
             j == CHOOSE j \in DashesAt(s) : j # i
             ys == SubSeq(s, 1, i - 1)
             ms == SubSeq(s, i + 1, j - 1)
             ds == SubSeq(s, j + 1, Len(s))
         IN  IF ~(IsYearPart(ys) /\ IsMonthPart(ms) /\ IsDayPart(ds)) THEN DateError
             ELSE IF DigitsVal(ys) < 1 THEN DateError
             ELSE IF DayPartVal(ds) > DaysInMonth(DigitsVal(ys), DigitsVal(ms))
             THEN DateError
             ELSE [ok |-> TRUE, y |-> DigitsVal(ys), m |-> DigitsVal(ms),
                   d |-> DayPartVal(ds)]

DateOf(p) == [y |-> p.y, m |-> p.m, d |-> p.d]

\* n written with exactly w digits, zero padded
Padded(n, w) ==
    LET pow[k \in 0..w] == IF k = 0 THEN 1 ELSE 10 * pow[k - 1]
    IN  [k \in 1..w |-> Digits[((n \div pow[w - k]) % 10) + 1]]

\* date.isoformat()
Isoformat(dt) == Padded(dt.y, 4) \o <<"-">> \o Padded(dt.m, 2) \o <<"-">> \o Padded(dt.d, 2)

\* Comparison of dates (Transaction.date >= ..., order_by)
DateKey(dt) == dt.y * 10000 + dt.m * 100 + dt.d
DateLeq(a, b) == DateKey(a) <= DateKey(b)

-----------------------------------------------------------------------------
(* Rows, ORM objects and responses *)

\* A transactions row (and the ORM object loaded from it):
\*   [id, user_id, type, category, amount, date, description, created_at]
\* type is an atom, category a JSON value (None only while uncommitted),
\* amount a number in thousandths, date [y, m, d], description characters.

valid_types == {"income", "expense", "savings", "investment"}

\* data['type'] not in valid_types
InvalidType(j) == ~(j.t = "str" /\ j.v \in valid_types)

\* The INSERT/UPDATE of an object: the amount lands in Numeric(10, 2)
Flush(obj) == [obj EXCEPT !.amount = ToNumeric(@)]

\* nullable=False on transactions.category
ViolatesNotNull(obj) == obj.category.t = "null"

\* Transaction.to_dict
to_dict(row) ==
    [id |-> row.id, user_id |-> row.user_id, type |-> row.type,
     category |-> row.category, amount |-> row.amount,
     date |-> Isoformat(row.date), description |-> row.description,
     created_at |-> row.created_at]

\* User.to_dict (created_at left out: no handler modelled here reads it)
user_to_dict(u) == [id |-> u.id, name |-> u.name, email |-> u.email]

ErrorBody(msg) == [error |-> msg]

\* Transaction.query.filter_by(id=transaction_id, user_id=current_user_id).first()
ScopedLookupUnscoped(tid, uid) == {i \in DOMAIN txs : i = tid}
ScopedLookup(tid, uid) == {i \in DOMAIN txs : i = tid /\ txs[i].user_id = uid}

\* The ids of the users holding an access token (register and login issue one
\* bound to user.id; get_jwt_identity returns it)
Authenticated == {u.id : u \in users}

-----------------------------------------------------------------------------
(* POST /api/register *)

\* The outcome of register on body data: the response and the tables after it
register(data) ==
    LET fail(code, msg) == [status |-> code, body |-> ErrorBody(msg),
                            users |-> users, nextUserId |-> nextUserId]
    IN  IF ~Truthy(Get(data, "name")) THEN fail(400, "Name is required")
        ELSE IF ~Truthy(Get(data, "email")) THEN fail(400, "Email is required")
        ELSE IF ~Truthy(Get(data, "password")) THEN fail(400, "Password is required")
        ELSE IF ~Contains(data["email"].v, "@") THEN fail(400, "Invalid email format")
        ELSE IF Len(data["password"].v) < 6
        THEN fail(400, "Password must be at least 6 characters")
        ELSE IF \E u \in users : u.email = Lower(data["email"].v)
        THEN fail(400, "Email already exists")
        ELSE LET user == [id |-> nextUserId,
                          name |-> Strip(data["name"].v),
                          email |-> Strip(Lower(data["email"].v))]
             IN  IF \E u \in users : u.email = user.email
                 THEN \* IntegrityError on users.email (unique) at commit: rollback;
                      \* the sequence value the INSERT drew is not given back
                      [status |-> 500, body |-> ErrorBody("Registration failed"),
                       users |-> users, nextUserId |-> nextUserId + 1]
                 ELSE [status |-> 201,
                       body |-> [message |-> "User created successfully",
                                 user |-> user_to_dict(user),
                                 access_token |-> user.id],
                       users |-> users \cup {user}, nextUserId |-> nextUserId + 1]

-----------------------------------------------------------------------------
(* POST /api/transactions *)

\* data.get('description', '').strip()
CreateDescriptionUnstripped(data) ==
    IF "description" \in DOMAIN data THEN data["description"].v ELSE <<>>
CreateDescription(data) ==
    IF "description" \in DOMAIN data THEN Strip(data["description"].v) ELSE <<>>

\* The outcome of create_transaction for user uid on body data at time now
create_transaction(uid, data, now) ==
    LET fail(code, msg) == [status |-> code, body |-> ErrorBody(msg), txs |-> txs,
                            nextTxId |-> nextTxId]
        fl == Float(data["amount"])
        parsed == Strptime(data["date"].v)
        desc == Get(data, "description")
    IN  IF ~Truthy(Get(data, "type")) THEN fail(400, "Transaction type is required")
        ELSE IF ~Truthy(Get(data, "category")) THEN fail(400, "Category is required")
        ELSE IF ~Truthy(Get(data, "amount")) THEN fail(400, "Amount is required")
        ELSE IF ~Truthy(Get(data, "date")) THEN fail(400, "Date is required")
        ELSE IF InvalidType(data["type"]) THEN fail(400, "Invalid transaction type")
        ELSE IF ~fl.ok THEN fail(400, "Invalid amount format")
        ELSE IF LeqZero(fl.f) THEN fail(400, "Amount must be greater than 0")
        ELSE IF data["date"].t # "text"
        THEN \* strptime of a non-string: TypeError, caught by except Exception
             fail(500, "Failed to create transaction")
        ELSE IF ~parsed.ok THEN fail(400, "Invalid date format. Use YYYY-MM-DD")
        ELSE IF "description" \in DOMAIN data /\ desc.t # "text"
        THEN \* None.strip(): AttributeError, caught by except Exception
             fail(500, "Failed to create transaction")
        ELSE LET obj == [id |-> nextTxId, user_id |-> uid, type |-> data["type"].v,
                         category |-> data["category"], amount |-> fl.f,
                         date |-> DateOf(parsed),
                         description |-> CreateDescription(data),
                         created_at |-> now]
                 row == Flush(obj)
             IN  [status |-> 201,
                  body |-> [message |-> "Transaction created successfully",
                            transaction |-> to_dict(row)],
                  txs |-> [i \in DOMAIN txs \cup {row.id} |->
                              IF i = row.id THEN row ELSE txs[i]],
                  nextTxId |-> nextTxId + 1]

-----------------------------------------------------------------------------
(* GET /api/transactions/<id> *)

get_transaction(uid, tid) ==
    IF ScopedLookup(tid, uid) = {}
    THEN [status |-> 404, body |-> ErrorBody("Transaction not found")]
    ELSE [status |-> 200, body |-> [transaction |-> to_dict(txs[tid])]]

-----------------------------------------------------------------------------
(* PUT /api/transactions/<id> *)

\* A handler that copies the ownership keys of the body onto the object and
\* commits (mass assignment), for comparison with UpdateSteps
UpdateStepsMassAssign(t0, data) ==
    LET has(k) == k \in DOMAIN data
        t1 == IF has("user_id") THEN [t0 EXCEPT !.user_id = data["user_id"].v] ELSE t0
        t2 == IF has("created_at") THEN [t1 EXCEPT !.created_at = data["created_at"].v]
              ELSE t1
    IN  [status |-> 200, msg |-> "commit", obj |-> t2]

\* The object after the handler's assignments for the fields up to the first
\* failing one, and how the handler left: "commit", or the error it returned.
UpdateSteps(t0, data) ==
    LET has(k) == k \in DOMAIN data
        t1 == IF has("type") THEN [t0 EXCEPT !.type = data["type"].v] ELSE t0
        t2 == IF has("category") THEN [t1 EXCEPT !.category = data["category"]] ELSE t1
        fl == Float(data["amount"])
        t3 == IF has("amount") THEN [t2 EXCEPT !.amount = fl.f] ELSE t2
        parsed == Strptime(data["date"].v)
        t4 == IF has("date") THEN [t3 EXCEPT !.date = DateOf(parsed)] ELSE t3
        t5 == IF has("description") THEN [t4 EXCEPT !.description = Strip(data["description"].v)]
              ELSE t4
        left(code, msg, obj) == [status |-> code, msg |-> msg, obj |-> obj]
    IN  IF has("type") /\ InvalidType(data["type"])
        THEN left(400, "Invalid transaction type", t0)
        ELSE IF has("amount") /\ ~fl.ok THEN left(400, "Invalid amount format", t2)
        ELSE IF has("amount") /\ LeqZero(fl.f)
        THEN left(400, "Amount must be greater than 0", t2)
        ELSE IF has("date") /\ data["date"].t # "text"
        THEN \* strptime(None, ...): TypeError, caught by except Exception
             left(500, "Failed to update transaction", t3)
        ELSE IF has("date") /\ ~parsed.ok
        THEN left(400, "Invalid date format. Use YYYY-MM-DD", t3)
        ELSE IF has("description") /\ data["description"].t # "text"
        THEN \* None.strip(): AttributeError, caught by except Exception
             left(500, "Failed to update transaction", t4)
        ELSE left(200, "commit", t5)

\* Whether the handler reaches db.session.commit(): only when no check
\* returned before it
UpdateCommitsAfterError(s) == s.status \in {200, 400}
UpdateCommits(s) == s.status = 200

\* The outcome of update_transaction: the response, the table, and what the
\* session still holds uncommitted when the handler returns.
update_transaction(uid, tid, data) ==
    LET s == UpdateSteps(txs[tid], data)
    IN  IF ScopedLookup(tid, uid) = {}
        THEN [status |-> 404, body |-> ErrorBody("Transaction not found"),
              txs |-> txs, session |-> <<>>]
        ELSE IF UpdateCommits(s)
        THEN IF ViolatesNotNull(s.obj)
             THEN \* IntegrityError at db.session.commit(): rollback
                  [status |-> 500, body |-> ErrorBody("Failed to update transaction"),
                   txs |-> txs, session |-> <<>>]
             ELSE [status |-> s.status,
                   body |-> IF s.status = 200
                            THEN [message |-> "Transaction updated successfully",
                                  transaction |-> to_dict(Flush(s.obj))]
                            ELSE ErrorBody(s.msg),
                   txs |-> [txs EXCEPT ![tid] = Flush(s.obj)], session |-> <<>>]
        ELSE IF s.status = 400
        THEN \* returned without commit or rollback: the assignments made so
             \* far stay in the session until the request is torn down
             [status |-> 400, body |-> ErrorBody(s.msg), txs |-> txs,
              session |-> IF s.obj = txs[tid] THEN <<>> ELSE <<s.obj>>]
        ELSE \* except Exception: db.session.rollback()
             [status |-> 500, body |-> ErrorBody(s.msg), txs |-> txs, session |-> <<>>]

-----------------------------------------------------------------------------
(* DELETE /api/transactions/<id> *)

delete_transactionNoCommit(uid, tid) ==
    IF ScopedLookup(tid, uid) = {}
    THEN [status |-> 404, body |-> ErrorBody("Transaction not found"), txs |-> txs]
    ELSE [status |-> 200, body |-> [message |-> "Transaction deleted successfully"],
          txs |-> txs]
delete_transaction(uid, tid) ==
    IF ScopedLookup(tid, uid) = {}
    THEN [status |-> 404, body |-> ErrorBody("Transaction not found"), txs |-> txs]
    ELSE [status |-> 200, body |-> [message |-> "Transaction deleted successfully"],
          txs |-> [i \in DOMAIN txs \ {tid} |-> txs[i]]]

-----------------------------------------------------------------------------
(* GET /api/transactions and GET /api/stats/summary *)

\* request.args: type and category are atoms, the dates are characters.
\* `if value:` holds for a parameter that is present and not empty.
GivenAtom(args, k) == k \in DOMAIN args /\ args[k] # ""
GivenText(args, k) == k \in DOMAIN args /\ args[k] # <<>>

\* Whether the handler's strptime calls raise ValueError
BadDateArgs(args) ==
    \/ GivenText(args, "start_date") /\ ~Strptime(args["start_date"]).ok
    \/ GivenText(args, "end_date") /\ ~Strptime(args["end_date"]).ok

\* Transaction.date >= start and Transaction.date <= end, each when given
InDateRangeExclusive(row, args) ==
    /\ GivenText(args, "start_date")
          => DateKey(DateOf(Strptime(args["start_date"]))) < DateKey(row.date)
    /\ GivenText(args, "end_date")
          => DateKey(row.date) <= DateKey(DateOf(Strptime(args["end_date"])))
InDateRange(row, args) ==
    /\ GivenText(args, "start_date") => DateLeq(DateOf(Strptime(args["start_date"])), row.date)
    /\ GivenText(args, "end_date") => DateLeq(row.date, DateOf(Strptime(args["end_date"])))

\* The rows of get_transactions' query
ListQuery(uid, args) ==
    {row \in {txs[i] : i \in DOMAIN txs} :
        /\ row.user_id = uid
        /\ GivenAtom(args, "type") => row.type = args["type"]
        /\ GivenAtom(args, "category") => row.category.v = args["category"]
        /\ InDateRange(row, args)}

\* order_by(Transaction.date.desc()).all(): any order of the rows with the
\* dates descending (the database is free among equal dates)
OrderByDateDesc(rows) ==
    {f \in [1..Cardinality(rows) -> rows] :
        /\ \A i, j \in DOMAIN f : i # j => f[i] # f[j]
        /\ \A i, j \in DOMAIN f : i < j => DateLeq(f[j].date, f[i].date)}

\* The outcomes get_transactions may produce
get_transactions(uid, args) ==
    IF BadDateArgs(args)
    THEN {[status |-> 500, body |-> ErrorBody("Failed to fetch transactions")]}
    ELSE {[status |-> 200,
           body |-> [transactions |-> [i \in DOMAIN f |-> to_dict(f[i])],
                     count |-> Len(f)]] :
            f \in OrderByDateDesc(ListQuery(uid, args))}

\* sum(float(t.amount) for t in transactions if t.type == type)
RECURSIVE SumAmounts(_)
SumAmounts(rows) ==
    IF rows = {} THEN Num(0)
    ELSE LET r == CHOOSE r \in rows : TRUE
             rest == SumAmounts(rows \ {r})
         IN  IF r.amount.nan \/ rest.nan THEN NaN ELSE Num(r.amount.v + rest.v)

TotalOf(rows, type) == SumAmounts({r \in rows : r.type = type})

\* balance = total_income - total_expense - total_savings - total_investment
BalanceAddingSavings(inc, exp, sav, inv) ==
    IF inc.nan \/ exp.nan \/ sav.nan \/ inv.nan THEN NaN
    ELSE Num(inc.v - exp.v + sav.v - inv.v)
Balance(inc, exp, sav, inv) ==
    IF inc.nan \/ exp.nan \/ sav.nan \/ inv.nan THEN NaN
    ELSE Num(inc.v - exp.v - sav.v - inv.v)

\* The rows of get_stats_summary's query
SummaryQuery(uid, args) ==
    {row \in {txs[i] : i \in DOMAIN txs} : row.user_id = uid /\ InDateRange(row, args)}

get_stats_summary(uid, args) ==
    IF BadDateArgs(args)
    THEN [status |-> 500, body |-> ErrorBody("Failed to fetch statistics")]
    ELSE LET rows == SummaryQuery(uid, args)
             inc == TotalOf(rows, "income")
             exp == TotalOf(rows, "expense")
             sav == TotalOf(rows, "savings")
             inv == TotalOf(rows, "investment")
         IN  [status |-> 200,
              body |-> [total_income |-> inc, total_expense |-> exp,
                        total_savings |-> sav, total_investment |-> inv,
                        balance |-> Balance(inc, exp, sav, inv),
                        transaction_count |-> Cardinality(rows)]]

-----------------------------------------------------------------------------
(* The handlers as actions.  A request is taken when the server is idle;   *)
(* the exchange records the request and the response it got.               *)

Exchange(op, uid, tid, args, r) ==
    <<[op |-> op, user |-> uid, tid |-> tid, args |-> args,
       status |-> r.status, body |-> r.body]>>

Idle == exchange = <<>>

\* The ids a client may put in the URL: every id handed out so far and the next
UrlIds == 1..nextTxId

Register(bodies) ==
    /\ Idle
    /\ nextUserId <= MaxUserId
    /\ \E data \in bodies :
          LET r == register(data)
          IN  /\ users' = r.users
              /\ nextUserId' = r.nextUserId
              /\ exchange' = Exchange("register", 0, 0, data, r)
    /\ UNCHANGED <<txs, nextTxId, session, deleted>>

CreateTransaction(bodies, instants, maxId) ==
    /\ Idle
    /\ nextTxId <= maxId
    /\ \E uid \in Authenticated, data \in bodies, now \in instants :
          LET r == create_transaction(uid, data, now)
          IN  /\ txs' = r.txs
              /\ nextTxId' = r.nextTxId
              /\ exchange' = Exchange("create", uid, 0, data, r)
    /\ UNCHANGED <<users, nextUserId, session, deleted>>

GetTransaction ==
    /\ Idle
    /\ \E uid \in Authenticated, tid \in UrlIds :
          exchange' = Exchange("get", uid, tid, <<>>, get_transaction(uid, tid))
    /\ UNCHANGED <<users, txs, nextUserId, nextTxId, session, deleted>>

UpdateTransaction(bodies) ==
    /\ Idle
    /\ \E uid \in Authenticated, tid \in UrlIds, data \in bodies :
          LET r == update_transaction(uid, tid, data)
          IN  /\ txs' = r.txs
              /\ session' = r.session
              /\ exchange' = Exchange("update", uid, tid, data, r)
    /\ UNCHANGED <<users, nextUserId, nextTxId, deleted>>

DeleteTransaction ==
    /\ Idle
    /\ \E uid \in Authenticated, tid \in UrlIds :
          LET r == delete_transaction(uid, tid)
          IN  /\ txs' = r.txs
              /\ deleted' = IF r.status = 200 THEN deleted \cup {<<uid, tid>>} ELSE deleted
              /\ exchange' = Exchange("delete", uid, tid, <<>>, r)
    /\ UNCHANGED <<users, nextUserId, nextTxId, session>>

GetTransactions(queries) ==
    /\ Idle
    /\ \E uid \in Authenticated, args \in queries :
          \E r \in get_transactions(uid, args) :
              exchange' = Exchange("list", uid, 0, args, r)
    /\ UNCHANGED <<users, txs, nextUserId, nextTxId, session, deleted>>

GetStatsSummary(queries) ==
    /\ Idle
    /\ \E uid \in Authenticated, args \in queries :
          exchange' = Exchange("summary", uid, 0, args, get_stats_summary(uid, args))
    /\ UNCHANGED <<users, txs, nextUserId, nextTxId, session, deleted>>

\* The end of the request context: the response is out, and
\* Flask-SQLAlchemy's teardown removes the session (uncommitted state is lost)
Teardown ==
    /\ ~Idle
    /\ exchange' = <<>>
    /\ session' = <<>>
    /\ UNCHANGED <<users, txs, nextUserId, nextTxId, deleted>>

-----------------------------------------------------------------------------
(* Request bodies *)

\* The body holding the keys ks of record r
Restrict(r, ks) == [k \in ks |-> r[k]]

NameN == <<"n">>
NamePadded == <<" ", "n", " ">>
EmailA == <<"a", "@", "x">>
EmailAUpper == <<"A", "@", "X">>
EmailAPadded == <<" ", "a", "@", "x">>
EmailB == <<"b", "@", "x">>
EmailNoAt == <<"a", "x">>
PasswordOk == <<"s", "e", "c", "r", "e", "t">>
PasswordShort == <<"s", "e", "c", "r", "e">>

RegisterKeys == {"name", "email", "password"}

RegisterBodies ==
    {Restrict(r, ks) :
        r \in [name : {JText(NamePadded)},
               email : {JText(EmailA), JText(EmailAUpper), JText(EmailAPadded),
                        JText(EmailB)},
               password : {JText(PasswordOk)}],
        ks \in {RegisterKeys}}
    \cup {Restrict(r, ks) :
            r \in [name : {JText(NameN)}, email : {JText(EmailB)},
                   password : {JText(PasswordOk)}],
            ks \in {{"email", "password"}, {"name", "password"}, {"name", "email"}}}
    \cup {[name |-> JText(NameN), email |-> JText(EmailNoAt), password |-> JText(PasswordOk)],
          [name |-> JText(NameN), email |-> JText(EmailB), password |-> JText(PasswordShort)]}

Jan15 == <<"2", "0", "2", "4", "-", "0", "1", "-", "1", "5">>
Feb01 == <<"2", "0", "2", "4", "-", "0", "2", "-", "0", "1">>
Jan5Unpadded == <<"2", "0", "2", "4", "-", "1", "-", "5">>
Jan15Slashes == <<"2", "0", "2", "4", "/", "0", "1", "/", "1", "5">>
Feb30 == <<"2", "0", "2", "4", "-", "0", "2", "-", "3", "0">>

TxKeys == {"type", "category", "amount", "date", "description"}
RequiredKeys == {"type", "category", "amount", "date"}

Instants == {"t1", "t2"}
OneInstant == {"t1"}

\* Spec: two valid creates and one without a type; updates of the type
CrudCreateBodies ==
    {Restrict(r, ks) :
        r \in [type : {JStr("income"), JStr("expense")}, category : {JStr("food")},
               amount : {JNum(1000)}, date : {JText(Jan15)}],
        ks \in {RequiredKeys}}
    \cup {[category |-> JStr("food"), amount |-> JNum(1000), date |-> JText(Jan15)]}

CrudUpdateBodies ==
    {Restrict(r, ks) :
        r \in [type : {JStr("expense"), JStr("bogus")}],
        ks \in {{}, {"type"}}}

-----------------------------------------------------------------------------
(* The service from an empty database *)

Init ==
    /\ users = {}
    /\ txs = <<>>
    /\ nextUserId = 1
    /\ nextTxId = 1
    /\ session = <<>>
    /\ exchange = <<>>
    /\ deleted = {}

Next ==
    \/ Register(RegisterBodies)
    \/ CreateTransaction(CrudCreateBodies, OneInstant, MaxTxId)
    \/ GetTransaction
    \/ UpdateTransaction(CrudUpdateBodies)
    \/ DeleteTransaction
    \/ Teardown

Spec == Init /\ [][Next]_vars

-----------------------------------------------------------------------------
(* The service with users registered, for the checks of single handlers.   *)
(* Both states are reached from Init by Register.                          *)

UserA == [id |-> 1, name |-> NameN, email |-> EmailA]
UserB == [id |-> 2, name |-> NameN, email |-> EmailB]

InitOneUser ==
    /\ users = {UserA}
    /\ txs = <<>>
    /\ nextUserId = 2
    /\ nextTxId = 1
    /\ session = <<>>
    /\ exchange = <<>>
    /\ deleted = {}

InitTwoUsers ==
    /\ users = {UserA, UserB}
    /\ txs = <<>>
    /\ nextUserId = 3
    /\ nextTxId = 1
    /\ session = <<>>
    /\ exchange = <<>>
    /\ deleted = {}

TextNaN == <<"n", "a", "n">>
TextAbc == <<"a", "b", "c">>
Text2p50 == <<"2", ".", "5", "0">>
TextHiPadded == <<" ", "h", "i", " ">>

\* SpecCreate: every kind of amount, date and description create is given
ValidCreate ==
    [type |-> JStr("income"), category |-> JStr("food"), amount |-> JNum(1000),
     date |-> JText(Jan15), description |-> JText(TextHiPadded)]

RichCreateBodies ==
    {Restrict(r, ks) :
        r \in [type : {JStr("income"), JStr("bogus")},
               category : {JStr("food"), JStr("")},
               amount : {JNum(1000), JNum(4), JNum(0), JNum(-1000), JNum(2345),
                         JText(Text2p50), JText(TextAbc), JText(TextNaN), JNull},
               date : {JText(Jan15), JText(Jan5Unpadded), JText(Jan15Slashes),
                       JText(Feb30)},
               description : {JText(TextHiPadded), JNull}],
        ks \in {RequiredKeys, TxKeys}}
    \cup {Restrict(ValidCreate, RequiredKeys \ {k}) : k \in RequiredKeys}

SmallUpdateBodies ==
    {[amount |-> a] : a \in {JNum(4), JNum(0), JNum(-1000), JText(TextAbc)}}
    \cup {[category |-> JNull], [date |-> JNull], [description |-> JNull]}

NextCreate ==
    \/ CreateTransaction(RichCreateBodies, OneInstant, MaxTxIdValid)
    \/ GetTransaction
    \/ UpdateTransaction(SmallUpdateBodies)
    \/ Teardown

SpecCreate == InitOneUser /\ [][NextCreate]_vars

\* SpecUpdate: one valid create; updates of every subset of the fields, each
\* with valid and invalid values
UpdateCreateBodies == {Restrict(ValidCreate, RequiredKeys)}

RichUpdateBodies ==
    {Restrict(r, ks) :
        r \in [type : {JStr("expense"), JStr("bogus")},
               category : {JStr("rent"), JStr("")},
               amount : {JNum(2000), JNum(0), JText(TextAbc)},
               date : {JText(Feb01), JText(Jan15Slashes)},
               description : {JText(TextHiPadded)}],
        ks \in SUBSET TxKeys}

NextUpdate ==
    \/ CreateTransaction(UpdateCreateBodies, OneInstant, MaxTxIdValid)
    \/ GetTransaction
    \/ UpdateTransaction(RichUpdateBodies)
    \/ DeleteTransaction
    \/ Teardown

SpecUpdate == InitOneUser /\ [][NextUpdate]_vars

\* SpecList: two users' transactions of two types, categories and dates, and
\* every combination of the four filters
ListCreateBodies ==
    [type : {JStr("income"), JStr("expense")},
     category : {JStr("food"), JStr("rent")},
     amount : {JNum(1000)},
     date : {JText(Jan15), JText(Feb01)}]

ListQueries ==
    {Restrict(r, ks) :
        r \in [type : {"income", ""}, category : {"food"},
               start_date : {Jan15, Feb01, Jan15Slashes},
               end_date : {Jan15, Feb01, Jan15Slashes}],
        ks \in SUBSET {"type", "category", "start_date", "end_date"}}

NextList ==
    \/ CreateTransaction(ListCreateBodies, OneInstant, MaxTxId)
    \/ GetTransactions(ListQueries)
    \/ Teardown

SpecList == InitTwoUsers /\ [][NextList]_vars

\* SpecSummary: two users' transactions of the four types, two amounts and
\* two dates (amounts whose binary floating-point sums are exact), and every
\* combination of the two date bounds
SummaryCreateBodies ==
    [type : {JStr(t) : t \in valid_types},
     category : {JStr("food")},
     amount : {JNum(1000), JNum(2500)},
     date : {JText(Jan15), JText(Feb01)}]

SummaryQueries ==
    {Restrict(r, ks) :
        r \in [start_date : {Jan15, Feb01, Jan15Slashes},
               end_date : {Jan15, Feb01, Jan15Slashes}],
        ks \in SUBSET {"start_date", "end_date"}}

NextSummary ==
    \/ CreateTransaction(SummaryCreateBodies, OneInstant, MaxTxId)
    \/ GetStatsSummary(SummaryQueries)
    \/ Teardown

SpecSummary == InitTwoUsers /\ [][NextSummary]_vars

\* SpecOwner: two users register; each creates at either instant, with or
\* without a user_id in the body; updates carry the keys user_id, id and
\* created_at next to valid and invalid fields
OwnerRegisterBodies ==
    {[name |-> JText(NameN), email |-> JText(m), password |-> JText(PasswordOk)] :
        m \in {EmailA, EmailB}}

OwnerKeys == {"user_id", "id", "created_at"}

OwnerCreateBodies ==
    {Restrict(ValidCreate, RequiredKeys)}
    \cup {[k \in RequiredKeys \cup {"user_id"} |->
              IF k = "user_id" THEN JNum(u) ELSE ValidCreate[k]] : u \in 1..2}

OwnerUpdateBodies ==
    {Restrict(r, ks) :
        r \in [type : {JStr("expense")}, amount : {JNum(0)},
               user_id : {JNum(1), JNum(2)}, id : {JNum(2)},
               created_at : {JStr("t2")}],
        ks \in {{"type"}, {"user_id"}, {"id"}, {"created_at"},
                {"type"} \cup OwnerKeys, {"amount"} \cup OwnerKeys}}

NextOwner ==
    \/ Register(OwnerRegisterBodies)
    \/ CreateTransaction(OwnerCreateBodies, Instants, MaxTxId)
    \/ UpdateTransaction(OwnerUpdateBodies)
    \/ DeleteTransaction
    \/ Teardown

SpecOwner == Init /\ [][NextOwner]_vars

-----------------------------------------------------------------------------
(* Properties of Spec *)

ById == {"get", "update", "delete"}
NotFound(e) == e.status = 404 /\ e.body = ErrorBody("Transaction not found")

\* C1: a get, update or delete of transaction A by an authenticated user who
\* does not own A is answered 404 'Transaction not found', exactly as for an
\* id that does not exist, and leaves the transactions table unchanged.
C1_NonOwnerGetsNotFound ==
    [][\A e \in {exchange'[i] : i \in DOMAIN exchange'} :
          (Idle /\ e.op \in ById
             /\ (e.tid \notin DOMAIN txs \/ txs[e.tid].user_id # e.user))
          => (NotFound(e) /\ txs' = txs)]_vars

\* C1 witness: an update of an existing transaction by another user got 404
C1_Witness ==
    \E i \in DOMAIN exchange :
        /\ exchange[i].op = "update"
        /\ exchange[i].tid \in DOMAIN txs
        /\ txs[exchange[i].tid].user_id # exchange[i].user
        /\ "type" \in DOMAIN exchange[i].args
        /\ exchange[i].args["type"].v # txs[exchange[i].tid].type
        /\ exchange[i].status = 404

OtherwiseValidRegistration(data) ==
    /\ DOMAIN data = RegisterKeys
    /\ Truthy(data["name"])
    /\ Contains(data["email"].v, "@")
    /\ Len(data["password"].v) >= 6

Normalized(email) == Strip(Lower(email))

\* C4: every stored email is lowercase and trimmed and no two users share
\* one; and a registration whose email, lowercased and trimmed, is that of
\* an existing user is answered 400 'Email already exists' and adds no user.
C4_DuplicateEmailIsConflict ==
    /\ [](\A u \in users :
            /\ u.email = Normalized(u.email)
            /\ \A w \in users : w.email = u.email => w = u)
    /\ [][\A e \in {exchange'[i] : i \in DOMAIN exchange'} :
            (Idle /\ e.op = "register" /\ OtherwiseValidRegistration(e.args)
               /\ \E u \in users : u.email = Normalized(e.args["email"].v))
            => (e.status = 400 /\ e.body = ErrorBody("Email already exists")
                /\ users' = users)]_vars

\* C9: a delete by the owner of an existing transaction is answered 200 and
\* removes that row and nothing else (no other transaction, no user changes);
\* from then on a get, update or delete of that id by that user is answered 404.
C9_DeleteIsFinal ==
    [][\A e \in {exchange'[i] : i \in DOMAIN exchange'} :
          /\ (Idle /\ e.op = "delete" /\ e.tid \in DOMAIN txs
                /\ txs[e.tid].user_id = e.user)
             => /\ e.status = 200
                /\ DOMAIN txs' = DOMAIN txs \ {e.tid}
                /\ \A i \in DOMAIN txs' : txs'[i] = txs[i]
                /\ users' = users
          /\ (Idle /\ e.op \in ById /\ <<e.user, e.tid>> \in deleted)
             => e.status = 404]_vars

\* C9 witness: a second delete of an id by the user who deleted it got 404,
\* while another transaction is still stored
C9_Witness ==
    \E i \in DOMAIN exchange :
        /\ exchange[i].op = "delete"
        /\ <<exchange[i].user, exchange[i].tid>> \in deleted
        /\ exchange[i].status = 404
        /\ txs # <<>>

-----------------------------------------------------------------------------
(* Properties of SpecCreate *)

InFlight == {exchange[i] : i \in DOMAIN exchange}

SuppliedAmountLeqZero(data) ==
    /\ "amount" \in DOMAIN data
    /\ Float(data["amount"]).ok
    /\ LeqZero(Float(data["amount"]).f)

\* C2: every stored amount, as held in the Numeric(10, 2) column, is greater
\* than 0; and a create, or an update of a transaction the caller owns,
\* whose amount is 0 or negative is answered 400.
C2_StoredAmountsPositive ==
    /\ \A i \in DOMAIN txs : ~txs[i].amount.nan /\ txs[i].amount.v > 0
    /\ \A e \in InFlight :
          (e.op \in {"create", "update"} /\ e.status # 404
             /\ SuppliedAmountLeqZero(e.args))
          => e.status = 400

\* The response a get of the created transaction by its creator gets
FollowingGet(e) == get_transaction(e.user, e.body.transaction.id)

Created(e) == e.op = "create" /\ e.status = 201

\* C10 as stated: after a successful create, a get of the new id by the same
\* user returns the type, category, amount, date and description supplied.
C10_RoundTripIdentical ==
    \A e \in InFlight :
        Created(e) =>
           LET got == FollowingGet(e)
           IN  /\ got.status = 200
               /\ got.body.transaction.type = e.args["type"].v
               /\ got.body.transaction.category = e.args["category"]
               /\ got.body.transaction.amount = Float(e.args["amount"]).f
               /\ got.body.transaction.date = e.args["date"].v
               /\ "description" \in DOMAIN e.args
                     => got.body.transaction.description = e.args["description"].v

\* s without the whitespace around it: s is spaces, then t, then spaces, and
\* t neither starts nor ends with whitespace
IsTrimOf(t, s) ==
    /\ t = <<>> \/ (~IsSpace(t[1]) /\ ~IsSpace(t[Len(t)]))
    /\ \E k \in 0..(Len(s) - Len(t)) :
          /\ SubSeq(s, k + 1, k + Len(t)) = t
          /\ \A i \in (1..k) \cup ((k + Len(t) + 1)..Len(s)) : IsSpace(s[i])

\* c (thousandths, a multiple of 10) is f rounded to hundredths
IsRoundingOf(c, f) ==
    IF f.nan THEN c.nan
    ELSE ~c.nan /\ c.v % 10 = 0 /\ c.v - f.v \in -4..5

\* The same calendar day, written YYYY-MM-DD
IsCanonicalDateOf(t, s) ==
    /\ Len(t) = 10 /\ t[5] = "-" /\ t[8] = "-"
    /\ Strptime(t).ok /\ Strptime(t) = Strptime(s)

\* C10 amended: after a successful create, a get of the new id by the same
\* user returns the supplied type and category, the supplied amount rounded
\* to two fractional digits, the supplied date written as zero-padded
\* YYYY-MM-DD, and the supplied description without the whitespace around it
\* (the empty string when none was supplied).
C10_RoundTripNormalized ==
    \A e \in InFlight :
        Created(e) =>
           LET got == FollowingGet(e)
           IN  /\ got.status = 200
               /\ got.body.transaction.type = e.args["type"].v
               /\ got.body.transaction.category = e.args["category"]
               /\ IsRoundingOf(got.body.transaction.amount, Float(e.args["amount"]).f)
               /\ IsCanonicalDateOf(got.body.transaction.date, e.args["date"].v)
               /\ IsTrimOf(got.body.transaction.description,
                           IF "description" \in DOMAIN e.args
                           THEN e.args["description"].v ELSE <<>>)

\* C10 witness: a create with a padded description, an unpadded date and an
\* amount of three fractional digits succeeded
C10_Witness ==
    \E e \in InFlight :
        /\ Created(e)
        /\ "description" \in DOMAIN e.args
        /\ e.args["description"].v = TextHiPadded
        /\ e.args["date"].v = Jan5Unpadded
        /\ e.args["amount"] = JNum(2345)
        /\ FollowingGet(e).status = 200

-----------------------------------------------------------------------------
(* Properties of SpecUpdate *)

RowFields ==
    {"id", "user_id", "type", "category", "amount", "date", "description", "created_at"}

\* C3: an update answered 400 leaves the transactions table exactly as it
\* was, whatever fields it supplied and wherever the failing one comes in
\* the handler's order, also once the request is over; an update answered
\* 200 changes no other row and no field that the body does not supply.
C3_UpdateAllOrNothing ==
    [][/\ \A e \in {exchange'[i] : i \in DOMAIN exchange'} :
            (Idle /\ e.op = "update") =>
               /\ e.status = 400 => txs' = txs
               /\ e.status = 200 =>
                     /\ DOMAIN txs' = DOMAIN txs
                     /\ \A i \in DOMAIN txs \ {e.tid} : txs'[i] = txs[i]
                     /\ \A f \in RowFields \ DOMAIN e.args :
                           txs'[e.tid][f] = txs[e.tid][f]
       /\ (~Idle /\ exchange' = <<>>) => txs' = txs]_vars

\* C3 witness: an update that supplied a valid new type and a later invalid
\* field was answered 400; the assignment is in the session, not in the table
C3_Witness ==
    \E e \in InFlight :
        /\ e.op = "update" /\ e.status = 400
        /\ "type" \in DOMAIN e.args
        /\ e.args["type"].v \in valid_types
        /\ e.args["type"].v # txs[e.tid].type
        /\ session # <<>>
        /\ session[1].type = e.args["type"].v

\* Whether create_transaction answers 400 to an otherwise valid body whose
\* field k is v
CreateRejects(k, v) ==
    create_transaction(1, [ValidCreate EXCEPT ![k] = v], "t1").status = 400

\* C8: an update of a transaction the caller owns that supplies, for type,
\* category, amount or date, a value create_transaction rejects with 400 is
\* answered 400; so every stored transaction has a valid type, a non-empty
\* category, an amount and a date.
C8_UpdateValidatesLikeCreate ==
    /\ \A e \in InFlight :
          (e.op = "update" /\ e.status # 404
             /\ \E k \in DOMAIN e.args \cap RequiredKeys : CreateRejects(k, e.args[k]))
          => e.status = 400
    /\ \A i \in DOMAIN txs :
          /\ txs[i].type \in valid_types
          /\ Truthy(txs[i].category)

-----------------------------------------------------------------------------
(* Properties of SpecList *)

\* a is the same day as b or an earlier one
NotAfter(a, b) ==
    \/ a.y < b.y
    \/ a.y = b.y /\ a.m < b.m
    \/ a.y = b.y /\ a.m = b.m /\ a.d <= b.d

WellFormedDates(args) ==
    \A k \in DOMAIN args \cap {"start_date", "end_date"} :
        args[k] = <<>> \/ Strptime(args[k]).ok

\* The ids of the transactions of user uid that pass every filter given
Selected(uid, args) ==
    {i \in DOMAIN txs :
        /\ txs[i].user_id = uid
        /\ GivenAtom(args, "type") => txs[i].type = args["type"]
        /\ GivenAtom(args, "category") => txs[i].category.v = args["category"]
        /\ GivenText(args, "start_date")
              => NotAfter(DateOf(Strptime(args["start_date"])), txs[i].date)
        /\ GivenText(args, "end_date")
              => NotAfter(txs[i].date, DateOf(Strptime(args["end_date"])))}

\* C5: with well-formed dates, get_transactions answers 200 with exactly the
\* caller's transactions that pass all the filters given (type and category
\* by equality, start_date <= date <= end_date), each once, dates
\* descending, and count their number; no other user's transaction is in it.
C5_ListIsFilteredOwnedSorted ==
    \A e \in InFlight :
        (e.op = "list" /\ WellFormedDates(e.args)) =>
           /\ e.status = 200
           /\ LET ts == e.body.transactions
              IN  /\ {ts[i].id : i \in DOMAIN ts} = Selected(e.user, e.args)
                  /\ Len(ts) = Cardinality(Selected(e.user, e.args))
                  /\ \A i \in DOMAIN ts : ts[i] = to_dict(txs[ts[i].id])
                  /\ \A i \in DOMAIN ts : ts[i].user_id = e.user
                  /\ \A i, j \in DOMAIN ts :
                        i < j => NotAfter(txs[ts[j].id].date, txs[ts[i].id].date)
                  /\ e.body.count = Len(ts)

\* C5 witness: a list filtered by type and by both date bounds returned the
\* caller's one transaction while the other user has a transaction that
\* passes the same filters
C5_Witness ==
    \E e \in InFlight :
        /\ e.op = "list" /\ e.status = 200
        /\ DOMAIN e.args = {"type", "start_date", "end_date"}
        /\ e.args["type"] # ""
        /\ Len(e.body.transactions) = 1
        /\ \E i \in DOMAIN txs :
              /\ txs[i].user_id # e.user
              /\ txs[i].type = e.args["type"]
              /\ txs[i].date = txs[e.body.transactions[1].id].date

\* C6: a get_transactions whose start_date or end_date is given and is not
\* a YYYY-MM-DD date is answered 400, never 500.
C6_BadListDateIs400 ==
    \A e \in InFlight :
        (e.op = "list" /\ ~WellFormedDates(e.args)) => e.status = 400

-----------------------------------------------------------------------------
(* Properties of SpecSummary *)

\* The ids of the transactions of user uid in the date range given
InRangeOf(uid, args) ==
    {i \in DOMAIN txs :
        /\ txs[i].user_id = uid
        /\ GivenText(args, "start_date")
              => NotAfter(DateOf(Strptime(args["start_date"])), txs[i].date)
        /\ GivenText(args, "end_date")
              => NotAfter(txs[i].date, DateOf(Strptime(args["end_date"])))}

\* The sum of the amounts of the transactions ids of a type, id by id
RECURSIVE SumUpTo(_, _, _)
SumUpTo(n, ids, type) ==
    IF n = 0 THEN 0
    ELSE SumUpTo(n - 1, ids, type)
         + (IF n \in ids /\ txs[n].type = type THEN txs[n].amount.v ELSE 0)

SumOfType(ids, type) == Num(SumUpTo(nextTxId, ids, type))

-----------------------------------------------------------------------------
(* Properties of SpecOwner *)

OwnershipFields(t) == <<t.user_id, t.id, t.created_at>>

\* C11: ownership is fixed at creation.  In every state a stored transaction
\* carries its own id and the id of an existing user; a row enters the table
\* only by a create answered 201, under an id never handed out before and
\* with the user_id of the authenticated caller; and no request, an
\* update_transaction with any body included, changes the user_id, id or
\* created_at of a stored row.
C11_OwnershipFixed ==
    /\ [](\A i \in DOMAIN txs :
             txs[i].id = i /\ txs[i].user_id \in {u.id : u \in users})
    /\ [][/\ nextTxId' >= nextTxId
          /\ \A i \in DOMAIN txs \cap DOMAIN txs' :
                OwnershipFields(txs'[i]) = OwnershipFields(txs[i])
          /\ \A i \in DOMAIN txs' \ DOMAIN txs :
                /\ i >= nextTxId
                /\ Idle
                /\ \E e \in {exchange'[k] : k \in DOMAIN exchange'} :
                      /\ e.op = "create" /\ e.status = 201
                      /\ e.user \in {u.id : u \in users}
                      /\ txs'[i].user_id = e.user
                      /\ e.body.transaction.id = i]_vars

\* C11 witness: an update whose body names another user, another id and
\* another creation instant next to a new type was answered 200; the type
\* changed and the row is still the caller's, under its id and instant
C11_Witness ==
    \E k \in DOMAIN exchange :
        LET e == exchange[k]
        IN  /\ e.op = "update" /\ e.status = 200
            /\ OwnerKeys \cup {"type"} \subseteq DOMAIN e.args
            /\ e.tid \in DOMAIN txs
            /\ txs[e.tid].type = e.args["type"].v
            /\ e.args["user_id"].v # e.user
            /\ e.args["user_id"].v \in {u.id : u \in users}
            /\ e.args["id"].v # e.tid
            /\ e.args["created_at"].v # txs[e.tid].created_at
            /\ txs[e.tid].user_id = e.user

=============================================================================
